---------------------------- MODULE Spec2Model ----------------------------
(***************************************************************************)
(* Model of the comment-to-token deployer of scripts/complete_workflow.py  *)
(* with services/database.py and services/instagram_reply.py.              *)
(*                                                                         *)
(* The polling loop main() and the per-comment workflow process_comment()  *)
(* are modelled step by step, one action per external-call boundary.  The  *)
(* external collaborators (Graph API, Apify, the node deployment script,   *)
(* the node database script) answer nondeterministically.                  *)
(*                                                                         *)
(* A text is a sequence of one-character strings, so that the regular      *)
(* expressions of parse_deploy_command are evaluated character by          *)
(* character.                                                              *)
(***************************************************************************)
EXTENDS Integers, Sequences, FiniteSets, TLC

(***************************************************************************)
(* Bounds of the model.                                                    *)
(***************************************************************************)
\* polling cycles started, over all runs of the process
MaxCycles == 2

(***************************************************************************)
(* Characters.                                                             *)
(***************************************************************************)
LowerLetters ==
  {"a","b","c","d","e","f","g","h","i","j","k","l","m",
   "n","o","p","q","r","s","t","u","v","w","x","y","z"}

UpperLetters ==
  {"A","B","C","D","E","F","G","H","I","J","K","L","M",
   "N","O","P","Q","R","S","T","U","V","W","X","Y","Z"}

Digits == {"0","1","2","3","4","5","6","7","8","9"}

LowerOf ==
  [c \in UpperLetters |->
     CASE c = "A" -> "a" [] c = "B" -> "b" [] c = "C" -> "c" [] c = "D" -> "d"
       [] c = "E" -> "e" [] c = "F" -> "f" [] c = "G" -> "g" [] c = "H" -> "h"
       [] c = "I" -> "i" [] c = "J" -> "j" [] c = "K" -> "k" [] c = "L" -> "l"
       [] c = "M" -> "m" [] c = "N" -> "n" [] c = "O" -> "o" [] c = "P" -> "p"
       [] c = "Q" -> "q" [] c = "R" -> "r" [] c = "S" -> "s" [] c = "T" -> "t"
       [] c = "U" -> "u" [] c = "V" -> "v" [] c = "W" -> "w" [] c = "X" -> "x"
       [] c = "Y" -> "y" [] c = "Z" -> "z"]

\* letters outside ASCII, each named by its code point: U+00E9 is the small
\* e with acute accent and U+00C9 its capital
SmallEAcute == "U+00E9"

CapitalEAcute == "U+00C9"

Letters == LowerLetters \cup UpperLetters \cup {SmallEAcute, CapitalEAcute}

\* str.lower() on one character
LowerChar(c) ==
  IF c \in UpperLetters THEN LowerOf[c]
  ELSE IF c = CapitalEAcute THEN SmallEAcute
  ELSE c

\* str.upper() on one character
UpperChar(c) ==
  IF c \in LowerLetters THEN CHOOSE u \in UpperLetters : LowerOf[u] = c
  ELSE IF c = SmallEAcute THEN CapitalEAcute
  ELSE c

\* str.lower()
lower(s) == [i \in 1..Len(s) |-> LowerChar(s[i])]

\* str.upper() without the case mapping
upper_mut(s) == s

\* str.upper()
upper(s) == [i \in 1..Len(s) |-> UpperChar(s[i])]

\* the class \w of the re module on a str pattern: the Unicode word characters
IsWord(c) == c \in Letters \cup Digits \cup {"_"}

\* the class \s of the re module
IsSpace(c) == c \in {" ", "\t", "\n"}

\* str.isalnum(): non-empty and every character a Unicode letter or digit
isalnum(s) ==
  /\ Len(s) > 0
  /\ \A i \in 1..Len(s) : s[i] \in Letters \cup Digits

(***************************************************************************)
(* parse_deploy_command.  Both patterns are sequences of literals and of   *)
(* the greedy runs \s+ and \w+; every run is followed by an element of a   *)
(* disjoint character class (or by the end of the pattern), so the match   *)
(* at a given start position is unique and is found by taking each run     *)
(* maximal.                                                                *)
(***************************************************************************)
OUR_USERNAME == <<"f","e","e","d","o","3","a","p","p">>

\* a literal of the pattern matches the text at position i (re.IGNORECASE)
LitAt(lit, s, i) ==
  /\ i >= 1
  /\ i + Len(lit) - 1 <= Len(s)
  /\ \A k \in 1..Len(lit) : LowerChar(s[i + k - 1]) = LowerChar(lit[k])

RECURSIVE RunEnd(_, _, _)
\* position after the maximal run, starting at i, of characters of a class
\* (space = TRUE: \s, space = FALSE: \w)
RunEnd(s, i, space) ==
  IF i > Len(s) THEN i
  ELSE IF (IF space THEN IsSpace(s[i]) ELSE IsWord(s[i]))
       THEN RunEnd(s, i + 1, space)
       ELSE i

NoMatch == [found |-> FALSE, name |-> <<>>, ticker |-> <<>>]

\* the two groups, once every element of the pattern has matched: j1..j2-1
\* is the name, j3 the position of the $ and j4..j5-1 the ticker
Groups(s, j1, j2, j3, j4, j5) ==
  IF j2 > j1 /\ j3 > j2 /\ LitAt(<<"$">>, s, j3) /\ j5 > j4
  THEN [found |-> TRUE, name |-> SubSeq(s, j1, j2 - 1),
        ticker |-> SubSeq(s, j4, j5 - 1)]
  ELSE NoMatch

Tail4(s, j1, j2, j3) == Groups(s, j1, j2, j3, j3 + 1, RunEnd(s, j3 + 1, FALSE))

Tail3(s, j1, j2) == Tail4(s, j1, j2, RunEnd(s, j2, TRUE))

Tail2(s, j1) == Tail3(s, j1, RunEnd(s, j1, FALSE))

Tail1(s, j, j1) == IF j1 > j THEN Tail2(s, j1) ELSE NoMatch

\* \s+(\w+)\s+\$(\w+) anchored at position j
TailAt(s, j) == Tail1(s, j, RunEnd(s, j, TRUE))

\* (?:deploy|launch) at position j1, after the \s+ that started at j0
VerbAt(s, j0, j1) ==
  IF /\ j1 > j0
     /\ \/ LitAt(<<"d","e","p","l","o","y">>, s, j1)
        \/ LitAt(<<"l","a","u","n","c","h">>, s, j1)
  THEN TailAt(s, j1 + 6)
  ELSE NoMatch

\* pattern1 anchored at position i
Pattern1At(s, our_username, i) ==
  IF LitAt(<<"@">> \o our_username, s, i)
  THEN VerbAt(s, i + 1 + Len(our_username),
              RunEnd(s, i + 1 + Len(our_username), TRUE))
  ELSE NoMatch

\* pattern2 without the @ before the handle
Pattern2At_mut(s, our_username, i) ==
  IF LitAt(our_username, s, i)
  THEN TailAt(s, i + Len(our_username))
  ELSE NoMatch

\* pattern2 anchored at position i
Pattern2At(s, our_username, i) ==
  IF LitAt(<<"@">> \o our_username, s, i)
  THEN TailAt(s, i + 1 + Len(our_username))
  ELSE NoMatch

PatternAt(s, our_username, first, i) ==
  IF first THEN Pattern1At(s, our_username, i) ELSE Pattern2At(s, our_username, i)

RECURSIVE SearchFrom(_, _, _, _)
\* the match at the leftmost start position at or after i
SearchFrom(s, our_username, first, i) ==
  IF i > Len(s) THEN NoMatch
  ELSE IF PatternAt(s, our_username, first, i).found
       THEN PatternAt(s, our_username, first, i)
       ELSE SearchFrom(s, our_username, first, i + 1)

\* re.search(pattern, comment_text, re.IGNORECASE)
Search(s, our_username, first) == SearchFrom(s, our_username, first, 1)

\* the result {'valid': False}: neither a name nor a ticker
Invalid == [valid |-> FALSE]

\* lines 94-105 with the name and the ticker kept in the invalid result
Validate_mut(token_name, ticker) ==
  IF Len(ticker) >= 3 /\ Len(ticker) <= 10 /\ isalnum(ticker)
  THEN [valid |-> TRUE, name |-> token_name, ticker |-> ticker]
  ELSE [valid |-> FALSE, name |-> token_name, ticker |-> ticker]

\* lines 94-105
Validate(token_name, ticker) ==
  IF Len(ticker) >= 3 /\ Len(ticker) <= 10 /\ isalnum(ticker)
  THEN [valid |-> TRUE, name |-> token_name, ticker |-> ticker]
  ELSE Invalid

\* lines 93-105
Result(match) ==
  IF match.found THEN Validate(match.name, upper(match.ticker)) ELSE Invalid

\* lines 89-91 with pattern2 also tried after a pattern1 match whose ticker
\* is refused
FirstMatch_mut(m1, comment_text, our_username) ==
  IF m1.found /\ Result(m1).valid THEN m1
  ELSE Search(comment_text, our_username, FALSE)

\* lines 89-91
FirstMatch(m1, comment_text, our_username) ==
  IF m1.found THEN m1 ELSE Search(comment_text, our_username, FALSE)

parse_deploy_command(comment_text, our_username) ==
  Result(FirstMatch(Search(comment_text, our_username, TRUE),
                    comment_text, our_username))

\* the substring test of process_comment: '@feedo3app' in comment_text.lower()
Mentions(comment_text) ==
  LET h == <<"@">> \o OUR_USERNAME
      t == lower(comment_text)
  IN \E i \in 1..Len(t) :
       /\ i + Len(h) - 1 <= Len(t)
       /\ SubSeq(t, i, i + Len(h) - 1) = h

\* the word occurs in the text
Occurs(word, txt) ==
  \E i \in 1..Len(txt) :
    /\ i + Len(word) - 1 <= Len(txt)
    /\ SubSeq(txt, i, i + Len(word) - 1) = word

(***************************************************************************)
(* scripts/search_mentions.py, display_mentions: the command pattern used  *)
(* to show the command of a caption.                                       *)
(***************************************************************************)
\* (?:deploy|launch)?\s*(\w+)\s+\$(\w+) at position j1, after the \s+ that
\* started at j0: the verb is tried first and given up when the rest does
\* not match behind it
DisplayVerbAt(s, j0, j1) ==
  IF j1 <= j0 THEN NoMatch
  ELSE IF /\ \/ LitAt(<<"d","e","p","l","o","y">>, s, j1)
             \/ LitAt(<<"l","a","u","n","c","h">>, s, j1)
          /\ Tail2(s, RunEnd(s, j1 + 6, TRUE)).found
       THEN Tail2(s, RunEnd(s, j1 + 6, TRUE))
       ELSE Tail2(s, j1)

\* the pattern of line 225 anchored at position i
DisplayAt(s, target_username, i) ==
  IF LitAt(<<"@">> \o target_username, s, i)
  THEN DisplayVerbAt(s, i + 1 + Len(target_username),
                     RunEnd(s, i + 1 + Len(target_username), TRUE))
  ELSE NoMatch

RECURSIVE DisplaySearchFrom(_, _, _)
\* line 226: re.search(pattern, str(caption), re.IGNORECASE)
DisplaySearchFrom(s, target_username, i) ==
  IF i > Len(s) THEN NoMatch
  ELSE IF DisplayAt(s, target_username, i).found
       THEN DisplayAt(s, target_username, i)
       ELSE DisplaySearchFrom(s, target_username, i + 1)

\* lines 219-232: what display_mentions shows as the command of a caption
display_command(caption, target_username) ==
  IF ~(Occurs(<<"@">> \o target_username, lower(caption))
       /\ Occurs(<<"d","e","p","l","o","y">>, lower(caption)))
  THEN [t |-> "skipped"]
  ELSE IF DisplaySearchFrom(caption, target_username, 1).found
       THEN [t |-> "command",
             token_name |-> DisplaySearchFrom(caption, target_username, 1).name,
             ticker |-> upper(DisplaySearchFrom(caption, target_username, 1).ticker)]
       ELSE [t |-> "no-match"]

(***************************************************************************)
(* The feed: two posts and their comments, in listing order.               *)
(***************************************************************************)
AtHandle == <<"@">> \o OUR_USERNAME

Sp == <<" ">>

W_deploy == <<"d","e","p","l","o","y">>

W_Rocket == <<"R","o","c","k","e","t">>

W_Moon == <<"M","o","o","n">>

Usernames == {"alice", "bob", "carol"}

CommentIds == 1..4

Comment ==
  [id \in CommentIds |->
     CASE id = 1 -> [id |-> 1, username |-> "alice",
                     text |-> <<"c","h","e","c","k">> \o Sp \o <<"t","h","i","s">>
                              \o Sp \o <<"o","u","t">>]
       [] id = 2 -> [id |-> 2, username |-> "bob",
                     text |-> AtHandle \o Sp \o W_deploy \o Sp \o W_Rocket
                              \o Sp \o <<"$","R","K","T">>]
       [] id = 3 -> [id |-> 3, username |-> "carol",
                     text |-> AtHandle \o Sp \o W_deploy \o Sp \o W_Rocket
                              \o Sp \o <<"$","A","B">>]
       [] id = 4 -> [id |-> 4, username |-> "bob",
                     text |-> <<"g","m">> \o Sp
                              \o <<"@","F","e","e","d","O","3","A","p","p">>
                              \o Sp \o W_Moon]]

\* the feed lists the newest post first
MediaIds == <<"m2", "m1">>

CommentsOf == [m \in {"m1", "m2"} |-> IF m = "m1" THEN <<2, 1>> ELSE <<3, 4>>]

\* line 413: parsed = parse_deploy_command(comment_text, OUR_USERNAME)
ParsedOf ==
  [id \in CommentIds |-> parse_deploy_command(Comment[id].text, OUR_USERNAME)]

\* line 406: the comment mentions @feedo3app
MentionedOf == [id \in CommentIds |-> Mentions(Comment[id].text)]

(***************************************************************************)
(* fetch_recent_media and fetch_comments_for_media.                        *)
(***************************************************************************)
\* answers of the Graph API to a listing: the items, no item, or a failed
\* request (requests.get or raise_for_status raises)
FeedResponses(items) ==
  {[ok |-> TRUE, data |-> items], [ok |-> TRUE, data |-> <<>>],
   [ok |-> FALSE, data |-> <<>>]}

\* lines 46-53: data.get('data', []), and [] from the except clause
fetch_recent_media(response) == IF response.ok THEN response.data ELSE <<>>

\* lines 63-80: data.get('data', []), and [] from the except clause
fetch_comments_for_media(response) ==
  IF response.ok THEN response.data ELSE <<>>

\* the last call of the Feed Client: which listing, whether the request
\* succeeded, the value returned
NoFetch == [call |-> "none", ok |-> TRUE, value |-> <<>>]

(***************************************************************************)
(* Comment texts given to parse_deploy_command on its own: every text is   *)
(* put together from a lead, a handle, a verb, a name, a ticker and a      *)
(* trail, each drawn from a few words.                                     *)
(***************************************************************************)
W_Launch == <<"L","a","u","n","c","h">>

W_MOON == <<"M","O","O","N">>

\* a whole command of the form without a verb
BareCommand == AtHandle \o Sp \o W_Moon \o Sp \o <<"$">> \o W_MOON

Leads == {<<>>, <<"g","m">> \o Sp, BareCommand \o Sp}

\* the handle as written, in another casing, without the @, and cut short
Handles ==
  {AtHandle, <<"@","F","e","e","d","O","3","A","p","p">>, OUR_USERNAME,
   <<"@","f","e","e","d","o","3","a","p">>}

Verbs == {<<>>, W_deploy, W_Launch}

Names == {<<>>, W_Rocket, <<"M","o","o","n","_","1">>}

\* tickers of 2, 3, 10 and 11 characters, in upper, lower and mixed case,
\* with an underscore, with letters outside ASCII
Tickers ==
  {<<"R","K","T">>, <<"r","k","7">>, <<"A","B">>,
   <<"A","b","C","D","E","F","G","H","I","J">>,
   <<"A","B","C","D","E","F","G","H","I","J","K">>,
   <<"A","_","B">>, <<SmallEAcute,"T",SmallEAcute>>}

Trails == {<<>>, <<"!">>, Sp \o BareCommand}

Parts ==
  [lead : Leads, handle : Handles, verb : Verbs, name : Names,
   dollar : BOOLEAN, ticker : Tickers, trail : Trails]

\* a word of the text with the space before it, nothing for no word
Spaced(w) == IF w = <<>> THEN <<>> ELSE Sp \o w

\* the comment text made of the parts
Format(p) ==
  p.lead \o p.handle \o Spaced(p.verb) \o Spaced(p.name) \o Sp
    \o (IF p.dollar THEN <<"$">> ELSE <<>>) \o p.ticker \o p.trail

\* texts that are no command at all
OddTexts ==
  {<<>>, <<"@">>, <<"$">>, Sp, AtHandle, AtHandle \o Sp,
   AtHandle \o Sp \o <<"$">>, AtHandle \o Sp \o W_deploy,
   AtHandle \o Sp \o W_deploy \o Sp \o W_Rocket,
   AtHandle \o <<"$","R","K","T">>}

\* the parts of no text
NoParts ==
  [lead |-> <<>>, handle |-> <<>>, verb |-> <<>>, name |-> <<>>,
   dollar |-> FALSE, ticker |-> <<>>, trail |-> <<>>]

(***************************************************************************)
(* Values exchanged with the collaborators.                                *)
(***************************************************************************)
None == [t |-> "None"]

\* temp_profile_{username}.jpg in the scripts directory
TempPath(username) == <<"temp_profile", username>>

NoPath == <<>>

(***************************************************************************)
(* services/database.py.  The node script database.js is not part of the   *)
(* sources; what it stores and prints is taken from the specification of   *)
(* the Store.                                                              *)
(***************************************************************************)
\* isProcessed: the Store holds a deployment record for the comment id
StoreHasComment(deps, id) == \E i \in 1..Len(deps) : deps[i].comment_id = id

\* the ways the script may print the answer of check-comment
CheckForms == {"bare", "object"}

\* last stdout line of "check-comment": the JSON text of a boolean or of an
\* object that carries it
CheckCommentLine(form, b) ==
  IF form = "bare"
  THEN [start |-> IF b THEN "t" ELSE "f", val |-> [t |-> "bool", v |-> b]]
  ELSE [start |-> "{", val |-> [t |-> "dict", v |-> b]]

\* a stdout line holding a JSON object
ObjectLine(val) == [start |-> "{", val |-> val]

\* get-or-create-user: the user of that name, created if missing; a profile
\* given at creation stores its picture
StoreGetOrCreateUser(us, pics, username, profile) ==
  [users |-> us \cup {username},
   pictures |-> IF username \notin us /\ profile # None
                THEN [pics EXCEPT ![username] = profile.profile_pic_path]
                ELSE pics,
   user |-> [t |-> "dict", id |-> username]]

\* get-profile-picture: the stored picture of the user
StoreGetProfilePicture(pics, username) == [t |-> "dict", path |-> pics[username]]

\* DatabaseService._call_db: None on a failed call; else the last stdout
\* line that starts with { or [, parsed as JSON; None if there is none
call_db(ok, line) ==
  IF ~ok THEN None
  ELSE IF line.start \in {"{", "["} THEN line.val
  ELSE None

\* DatabaseService.check_comment_processed: result is True
check_comment_processed(result) == result.t = "bool" /\ result.v = TRUE

(***************************************************************************)
(* scrape_profile_picture.                                                 *)
(***************************************************************************)
PollStep == 5

\* one more round of the loop of line 134
max_wait_mut == 13 * PollStep

max_wait == 60

\* behaviours of the Apify run: whether the start request succeeds, the poll
\* at which the run first shows a terminal status and which one, whether the
\* dataset has an item, whether the picture download succeeds
ScrapeScenarios ==
  [start : BOOLEAN, terminal_at : {1, 12, 13},
   terminal : {"SUCCEEDED", "FAILED", "ABORTED", "HTTPERROR"},
   results : BOOLEAN, download : BOOLEAN]

\* answer of the status request of the given poll ("HTTPERROR": it raises)
StatusAt(sc, poll) == IF poll >= sc.terminal_at THEN sc.terminal ELSE "RUNNING"

RECURSIVE PollLoop(_, _, _, _)
\* lines 134-145: the status seen last, the number of polls made and the
\* seconds slept
PollLoop(sc, wait_time, polls, status) ==
  IF wait_time < max_wait
  THEN LET st == StatusAt(sc, polls + 1)
       IN IF st \in {"SUCCEEDED", "FAILED", "ABORTED", "HTTPERROR"}
          THEN [status |-> st, polls |-> polls + 1,
                wait_time |-> wait_time + PollStep]
          ELSE PollLoop(sc, wait_time + PollStep, polls + 1, st)
  ELSE [status |-> status, polls |-> polls, wait_time |-> wait_time]

\* what the Apify run of a scenario amounts to, read off the scenario alone:
\* the run counts as timed out when it shows no terminal status within the
\* max_wait / 5 polls
ScrapeKind(sc) ==
  IF ~sc.start THEN "start-error"
  ELSE IF sc.terminal_at * PollStep > max_wait THEN "timeout"
  ELSE IF sc.terminal # "SUCCEEDED" THEN sc.terminal
  ELSE IF ~sc.results THEN "empty"
  ELSE IF ~sc.download THEN "download-error"
  ELSE "resolved"

\* lines 119-153: what a call does before it returns: whether the run was
\* started, the polls of the loop, the terminal status the run first shows
\* and at which poll it would show it, and whether the dataset was fetched
ScrapeRun(sc) ==
  LET loop == IF sc.start THEN PollLoop(sc, 0, 0, "unset")
              ELSE [status |-> "unset", polls |-> 0, wait_time |-> 0]
  IN [started |-> sc.start,
      polls |-> loop.polls,
      wait_time |-> loop.wait_time,
      status |-> loop.status,
      terminal_at |-> sc.terminal_at,
      fetched |-> sc.start /\ loop.status = "SUCCEEDED"]

\* the profile returned, or None
scrape_profile_picture(username, sc) ==
  IF ~sc.start THEN None
  ELSE IF PollLoop(sc, 0, 0, "unset").status # "SUCCEEDED" THEN None
  ELSE IF ~sc.results THEN None
  ELSE IF ~sc.download THEN None
  ELSE [t |-> "dict", username |-> username,
        profile_pic_path |-> TempPath(username)]

(***************************************************************************)
(* deploy_token_on_pumpfun.                                                *)
(***************************************************************************)
\* runs of the node script: success JSON printed and exit 0; success JSON
\* printed and then exit 1 (confirmTransaction throws); exit 1 without JSON;
\* no exit within 120 s; the script cannot be written or started
DeployRuns == {"json_exit0", "json_exit1", "exit1", "timeout", "exception"}

\* the script prints the success JSON only after it has read the image
DeployRunPossible(run, image_path, imgs) ==
  run \in {"json_exit0", "json_exit1"} => image_path \in imgs

deploy_token_on_pumpfun(run) ==
  CASE run \in {"json_exit0", "json_exit1"} -> [success |-> TRUE, error |-> ""]
    [] run = "exit1" ->
         [success |-> FALSE, error |-> "Could not parse deployment result"]
    [] run = "timeout" -> [success |-> FALSE, error |-> "Deployment timeout"]
    [] OTHER -> [success |-> FALSE, error |-> "exception text"]

\* lines 346-352: a parsed result removes the image file
DeployCleanup(run, image_path, imgs) ==
  IF run \in {"json_exit0", "json_exit1"} THEN imgs \ {image_path} ELSE imgs

(***************************************************************************)
(* State.                                                                  *)
(***************************************************************************)
VARIABLES
  processed_comments, \* the module-level set of handled comment ids
  phase,              \* position of main(): top, media, comments, in_comment, sleep
  media_posts,        \* posts listed in this cycle
  mi,                 \* index of the post whose comments are looked at
  comments,           \* comments listed for that post
  ci,                 \* index of the comment looked at
  pc,                 \* position of process_comment()
  cur,                \* id of the comment being handled (kept after the return)
  user,               \* local of process_comment
  profile_data,       \* local of process_comment
  deployment_result,  \* local of process_comment
  reply_result,       \* local of process_comment (reply_result / error_reply)
  users,              \* Store: names of the user records
  pictures,           \* Store: stored profile picture path of each user
  deployments,        \* Store: deployment records, in the order saved
  images,             \* temp_profile_*.jpg files present on disk
  deploy_calls,       \* calls of deploy_token_on_pumpfun in this process run,
                      \* per comment id
  reply_calls,        \* the same for reply_to_comment
  error_reply_calls,  \* the same for reply_with_error
  scrape_calls,       \* the same for scrape_profile_picture
  deploy_args,        \* arguments of the last Deployer call, per comment id
  trace,              \* calls made in the current (or last) process_comment
  cycles,             \* polling cycles started so far, over all process runs
  fetched,            \* the last call of the Feed Client and what it returned
  parts,              \* parser on its own: the parts of the text
  input_text,         \* parser on its own: the text
  mentioned,          \* parser on its own: outcome of the test of line 406
  parsed,             \* parser on its own: the last result
  parse_calls,        \* parser on its own: calls of parse_deploy_command
  shown               \* parser on its own: what display_mentions shows

vars ==
  <<processed_comments, phase, media_posts, mi, comments, ci, pc, cur, user,
    profile_data, deployment_result, reply_result, users, pictures, deployments, images,
    deploy_calls, reply_calls, error_reply_calls, scrape_calls, deploy_args,
    trace, cycles, fetched, parts, input_text, mentioned, parsed,
    parse_calls, shown>>

mainVars == <<phase, media_posts, mi, comments, ci>>

localVars == <<user, profile_data, deployment_result, reply_result>>

storeVars == <<users, pictures, deployments>>

callVars ==
  <<deploy_calls, reply_calls, error_reply_calls, scrape_calls, deploy_args>>

boundVars == <<cycles>>

parserVars == <<parts, input_text, mentioned, parsed, parse_calls, shown>>

\* everything but the variables of the parser on its own
workflowVars ==
  <<processed_comments, mainVars, pc, cur, localVars, storeVars, images,
    callVars, trace, boundVars, fetched>>

NoArgs == [t |-> "None"]

Event(op, res, arg) == [op |-> op, res |-> res, arg |-> arg]

\* the state after the module is loaded and main() is entered
WorkflowInit ==
  /\ processed_comments = {}
  /\ phase = "top"
  /\ media_posts = <<>>
  /\ mi = 1
  /\ comments = <<>>
  /\ ci = 1
  /\ pc = "idle"
  /\ cur = 0
  /\ user = None
  /\ profile_data = None
  /\ deployment_result = None
  /\ reply_result = None
  /\ users = {}
  /\ pictures = [u \in Usernames |-> NoPath]
  /\ deployments = <<>>
  /\ images = {}
  /\ deploy_calls = [id \in CommentIds |-> 0]
  /\ reply_calls = [id \in CommentIds |-> 0]
  /\ error_reply_calls = [id \in CommentIds |-> 0]
  /\ scrape_calls = [id \in CommentIds |-> 0]
  /\ deploy_args = [id \in CommentIds |-> NoArgs]
  /\ trace = <<>>
  /\ cycles = 1
  /\ fetched = NoFetch

Init ==
  /\ WorkflowInit
  /\ parts = NoParts
  /\ input_text = <<>>
  /\ mentioned = "unset"
  /\ parsed = None
  /\ parse_calls = 0
  /\ shown = None

(***************************************************************************)
(* Decisions of process_comment and main.                                  *)
(***************************************************************************)
IsNone(x) == x.t = "None"

\* lines 387 and 642 without the test of the set
AlreadySeen_mut(id, seen) == FALSE

\* lines 387 and 642: comment_id in processed_comments
AlreadySeen(id, seen) == id \in seen

\* the stored picture passed over
HasStoredPicture_mut(stored_pic) == FALSE

\* line 436: stored_pic and stored_pic.get('path')
HasStoredPicture(stored_pic) == ~IsNone(stored_pic) /\ stored_pic.path # NoPath

\* line 459 without the test of profile_data itself
NoProfile_mut(pd) == ~IsNone(pd) /\ pd.profile_pic_path = NoPath

\* line 459: not profile_data or not profile_data.get('profile_pic_path')
NoProfile(pd) == IsNone(pd) \/ pd.profile_pic_path = NoPath

\* lines 406 and 415 without the test of parsed['valid']
Rejection_mut(id) == IF ~MentionedOf[id] THEN "not-mentioned" ELSE "accepted"

\* lines 406 and 415: the comment is not handled as a command
Rejection(id) ==
  IF ~MentionedOf[id] THEN "not-mentioned"
  ELSE IF ~ParsedOf[id].valid THEN "invalid-command"
  ELSE "accepted"

Bump(f, id) == [f EXCEPT ![id] = IF @ < MaxCycles THEN @ + 1 ELSE @]

\* main is inside the call of line 644 and process_comment is at loc
At(loc) == phase = "in_comment" /\ pc = loc

\* process_comment returns to the loop of main (line 641)
Return ==
  /\ pc' = "idle"
  /\ phase' = "comments"
  /\ ci' = ci + 1
  /\ user' = None
  /\ profile_data' = None
  /\ deployment_result' = None
  /\ reply_result' = None
  /\ UNCHANGED <<media_posts, mi, comments, cur, boundVars, fetched, parserVars>>

\* the return without the add
AddAndReturn_mut ==
  /\ UNCHANGED processed_comments
  /\ Return

\* the set replaced by the id instead of the id added to it
AddAndReturn_replace ==
  /\ processed_comments' = {cur}
  /\ Return

\* processed_comments.add(comment_id) followed by the return
AddAndReturn ==
  /\ processed_comments' = processed_comments \cup {cur}
  /\ Return

\* the step goes on inside process_comment
Goto(next) ==
  /\ pc' = next
  /\ UNCHANGED <<processed_comments, mainVars, cur, boundVars, fetched, parserVars>>

(***************************************************************************)
(* process_comment, lines 386-601.                                         *)
(***************************************************************************)
\* lines 390-419: Store check, mention filter, parse
CheckProcessed ==
  /\ At("check")
  /\ \E ok \in BOOLEAN, form \in CheckForms :
       LET held == StoreHasComment(deployments, cur)
           result == call_db(ok, CheckCommentLine(form, held))
           answer == IF ~ok THEN "unavailable"
                     ELSE IF held THEN "recorded" ELSE "absent"
           ev == Event("check", answer, check_comment_processed(result))
       IN IF check_comment_processed(result)
          THEN /\ trace' = Append(trace, ev)
               /\ AddAndReturn
          ELSE IF Rejection(cur) # "accepted"
          THEN /\ trace' = trace \o <<ev, Event("reject", Rejection(cur), "")>>
               /\ AddAndReturn
          ELSE /\ trace' = Append(trace, ev)
               /\ Goto("user")
               /\ UNCHANGED localVars
  /\ UNCHANGED <<storeVars, images, callVars>>

\* lines 428-434: user = db.get_or_create_user(username)
GetUser ==
  /\ At("user")
  /\ \E ok \in BOOLEAN :
       LET r == StoreGetOrCreateUser(users, pictures, Comment[cur].username, None)
           result == call_db(ok, ObjectLine(r.user))
       IN /\ user' = result
          /\ users' = IF ok THEN r.users ELSE users
          /\ pictures' = IF ok THEN r.pictures ELSE pictures
          /\ trace' = Append(trace, Event("user", IF ok THEN "ok" ELSE "None", ""))
          /\ Goto(IF ~IsNone(result) THEN "pic" ELSE "scrape")
  /\ UNCHANGED <<profile_data, deployment_result, reply_result, deployments,
                 images, callVars>>

\* lines 435-444 and 459: stored_pic = db.get_user_profile_picture(username)
GetPicture ==
  /\ At("pic")
  /\ \E ok \in BOOLEAN :
       LET stored_pic ==
             call_db(ok, ObjectLine(StoreGetProfilePicture(pictures,
                                                           Comment[cur].username)))
           pd == [t |-> "dict", username |-> Comment[cur].username,
                  profile_pic_path |-> stored_pic.path]
           got == IF IsNone(stored_pic) THEN NoPath ELSE stored_pic.path
       IN IF HasStoredPicture(stored_pic)
          THEN /\ trace' = Append(trace, Event("picture", "stored", got))
               /\ IF NoProfile(pd)
                  THEN AddAndReturn
                  ELSE Goto("deploy") /\ profile_data' = pd
                       /\ UNCHANGED <<user, deployment_result, reply_result>>
          ELSE /\ trace' = Append(trace, Event("picture", "none", got))
               /\ Goto("scrape")
               /\ UNCHANGED localVars
  /\ UNCHANGED <<storeVars, images, callVars>>

\* lines 447-462: profile_data = scrape_profile_picture(username)
Scrape ==
  /\ At("scrape")
  /\ \E sc \in ScrapeScenarios :
       LET pd == scrape_profile_picture(Comment[cur].username, sc)
       IN /\ scrape_calls' = Bump(scrape_calls, cur)
          /\ images' = IF IsNone(pd) THEN images
                       ELSE images \cup {TempPath(Comment[cur].username)}
          /\ trace' = trace \o
                        <<Event("poll", IF IsNone(pd) THEN "None" ELSE "ok",
                                ScrapeRun(sc)),
                          Event("scrape", IF IsNone(pd) THEN "None" ELSE "ok",
                                ScrapeKind(sc))>>
          /\ IF ~IsNone(pd) /\ IsNone(user)
             THEN /\ Goto("user2")
                  /\ profile_data' = pd
                  /\ UNCHANGED <<user, deployment_result, reply_result>>
             ELSE IF NoProfile(pd)
             THEN AddAndReturn
             ELSE /\ Goto("deploy")
                  /\ profile_data' = pd
                  /\ UNCHANGED <<user, deployment_result, reply_result>>
  /\ UNCHANGED <<storeVars, deploy_calls, reply_calls, error_reply_calls,
                 deploy_args>>

\* lines 453-454 and 459: user = db.get_or_create_user(username, profile_data)
GetUser2 ==
  /\ At("user2")
  /\ \E ok \in BOOLEAN :
       LET r == StoreGetOrCreateUser(users, pictures, Comment[cur].username,
                                     profile_data)
           result == call_db(ok, ObjectLine(r.user))
       IN /\ user' = result
          /\ users' = IF ok THEN r.users ELSE users
          /\ pictures' = IF ok THEN r.pictures ELSE pictures
          /\ trace' = Append(trace, Event("user2", IF ok THEN "ok" ELSE "None", ""))
          /\ IF NoProfile(profile_data)
             THEN AddAndReturn
             ELSE Goto("deploy")
                  /\ UNCHANGED <<profile_data, deployment_result, reply_result>>
  /\ UNCHANGED <<deployments, images, callVars>>

\* lines 469-475: deployment_result = deploy_token_on_pumpfun(...)
Deploy ==
  /\ At("deploy")
  /\ \E run \in DeployRuns :
       /\ DeployRunPossible(run, profile_data.profile_pic_path, images)
       /\ deployment_result' = deploy_token_on_pumpfun(run)
       /\ images' = DeployCleanup(run, profile_data.profile_pic_path, images)
       /\ trace' = Append(trace,
            Event("deploy",
                  IF deploy_token_on_pumpfun(run).success THEN "success"
                  ELSE "failure", run))
  /\ deploy_calls' = Bump(deploy_calls, cur)
  /\ deploy_args' =
       [deploy_args EXCEPT ![cur] =
          [t |-> "args", token_name |-> ParsedOf[cur].name,
           ticker |-> ParsedOf[cur].ticker,
           image_path |-> profile_data.profile_pic_path,
           username |-> Comment[cur].username]]
  /\ Goto("reply")
  /\ UNCHANGED <<user, profile_data, reply_result, storeVars, reply_calls,
                 error_reply_calls, scrape_calls>>

\* the default of the get taken although the Deployer gave an error
ErrorMessage_mut(dr) == "Unknown error"

\* lines 572 and 589: deployment_result.get('error', 'Unknown error'); every
\* failure returned by deploy_token_on_pumpfun carries the key
ErrorMessage(dr) == dr.error

\* the success reply sent as soon as the profile is resolved, ahead of the
\* call of line 470
Reply_mut ==
  /\ At("deploy")
  /\ reply_calls[cur] = 0
  /\ reply_calls' = Bump(reply_calls, cur)
  /\ trace' = Append(trace, Event("reply", "ok", ""))
  /\ Goto("deploy")
  /\ UNCHANGED <<localVars, storeVars, images, deploy_calls,
                 error_reply_calls, scrape_calls, deploy_args>>

\* lines 491-506 and 568-578: reply_to_comment / reply_with_error
Reply ==
  /\ At("reply")
  /\ \E ok \in BOOLEAN :
       /\ reply_result' = [t |-> "dict", success |-> ok]
       /\ IF deployment_result.success
          THEN /\ reply_calls' = Bump(reply_calls, cur)
               /\ trace' = Append(trace,
                    Event("reply", IF ok THEN "ok" ELSE "failed", ""))
               /\ UNCHANGED error_reply_calls
          ELSE /\ error_reply_calls' = Bump(error_reply_calls, cur)
               /\ trace' = Append(trace,
                    Event("reply_error", IF ok THEN "ok" ELSE "failed",
                          ErrorMessage(deployment_result)))
               /\ UNCHANGED reply_calls
  /\ Goto("save")
  /\ UNCHANGED <<user, profile_data, deployment_result, storeVars, images,
                 deploy_calls, scrape_calls, deploy_args>>

\* lines 510-522 and 581-590: deployment_data
DeploymentData ==
  [comment_id |-> cur,
   token_name |-> ParsedOf[cur].name,
   ticker |-> ParsedOf[cur].ticker,
   auto_reply |-> reply_result.success,
   status |-> IF deployment_result.success THEN "SUCCESS" ELSE "FAILED",
   error_message |-> ErrorMessage(deployment_result)]

\* lines 524-531 and 592-601: db.save_deployment(user['id'], deployment_data);
\* user['id'] raises TypeError when user is None, and the except clause
\* swallows it before save_deployment is called
SaveDeployment ==
  /\ At("save")
  /\ IF IsNone(user)
     THEN /\ trace' = Append(trace, Event("save", "TypeError", ""))
          /\ UNCHANGED deployments
     ELSE \E ok \in BOOLEAN :
            /\ deployments' = IF ok THEN Append(deployments, DeploymentData)
                              ELSE deployments
            /\ trace' = Append(trace,
                 Event("save", IF ok THEN "saved" ELSE "failed",
                       DeploymentData.status))
  /\ IF deployment_result.success
     THEN Goto("file") /\ UNCHANGED localVars
     ELSE AddAndReturn
  /\ UNCHANGED <<users, pictures, images, callVars>>

\* lines 533-563 and 600-601: the deployment_<id>.json record file; an
\* OSError leaves process_comment and is caught at line 658
WriteRecordFile ==
  /\ At("file")
  /\ \E ok \in BOOLEAN :
       IF ok
       THEN /\ trace' = Append(trace, Event("file", "written", ""))
            /\ AddAndReturn
       ELSE /\ trace' = Append(trace, Event("file", "OSError", ""))
            /\ pc' = "idle"
            /\ phase' = "sleep"
            /\ user' = None
            /\ profile_data' = None
            /\ deployment_result' = None
            /\ reply_result' = None
            /\ UNCHANGED <<processed_comments, media_posts, mi, comments, ci,
                           cur, boundVars, fetched, parserVars>>
  /\ UNCHANGED <<storeVars, images, callVars>>

(***************************************************************************)
(* main, lines 612-663, and the restart of the process.                    *)
(***************************************************************************)
\* line 617: media_posts = fetch_recent_media()
FetchMedia ==
  /\ phase = "top"
  /\ \E response \in FeedResponses(MediaIds) :
       /\ media_posts' = fetch_recent_media(response)
       /\ fetched' = [call |-> "media", ok |-> response.ok,
                      value |-> fetch_recent_media(response)]
  /\ mi' = 1
  /\ phase' = "media"
  /\ UNCHANGED <<processed_comments, comments, ci, pc, cur, localVars,
                 storeVars, images, callVars, trace, boundVars, parserVars>>

\* line 633: comments = fetch_comments_for_media(media_id)
FetchComments ==
  /\ phase = "media"
  /\ mi <= Len(media_posts)
  /\ \E response \in FeedResponses(CommentsOf[media_posts[mi]]) :
       /\ comments' = fetch_comments_for_media(response)
       /\ fetched' = [call |-> "comments", ok |-> response.ok,
                      value |-> fetch_comments_for_media(response)]
  /\ ci' = 1
  /\ phase' = "comments"
  /\ UNCHANGED <<processed_comments, media_posts, mi, pc, cur, localVars,
                 storeVars, images, callVars, trace, boundVars, parserVars>>

\* lines 641-644 and 386-388: the next comment of the post
NextComment ==
  /\ phase = "comments"
  /\ ci <= Len(comments)
  /\ IF AlreadySeen(comments[ci], processed_comments)
     THEN /\ ci' = ci + 1
          /\ UNCHANGED <<phase, pc, cur, trace>>
     ELSE /\ cur' = comments[ci]
          /\ pc' = "check"
          /\ phase' = "in_comment"
          /\ trace' = <<>>
          /\ UNCHANGED ci
  /\ UNCHANGED <<processed_comments, media_posts, mi, comments, localVars,
                 storeVars, images, callVars, boundVars, fetched, parserVars>>

\* line 629 with the loop of line 641 left before its end
NextMedia_mut ==
  /\ phase = "comments"
  /\ mi' = mi + 1
  /\ phase' = "media"
  /\ UNCHANGED <<processed_comments, media_posts, comments, ci, pc, cur,
                 localVars, storeVars, images, callVars, trace, boundVars,
                 fetched, parserVars>>

\* line 629: the next post
NextMedia ==
  /\ phase = "comments"
  /\ ci > Len(comments)
  /\ mi' = mi + 1
  /\ phase' = "media"
  /\ UNCHANGED <<processed_comments, media_posts, comments, ci, pc, cur,
                 localVars, storeVars, images, callVars, trace, boundVars, fetched, parserVars>>

\* lines 646-652 without the sleep of line 653
EndCycle_mut ==
  /\ phase = "media"
  /\ mi > Len(media_posts)
  /\ phase' = "top"
  /\ UNCHANGED <<processed_comments, media_posts, mi, comments, ci, pc, cur,
                 localVars, storeVars, images, callVars, trace, boundVars,
                 fetched, parserVars>>

\* lines 646-653: all posts done
EndCycle ==
  /\ phase = "media"
  /\ mi > Len(media_posts)
  /\ phase' = "sleep"
  /\ UNCHANGED <<processed_comments, media_posts, mi, comments, ci, pc, cur,
                 localVars, storeVars, images, callVars, trace, boundVars, fetched, parserVars>>

\* lines 653 and 663: time.sleep(POLLING_INTERVAL), then the next cycle
Sleep ==
  /\ phase = "sleep"
  /\ cycles < MaxCycles
  /\ cycles' = cycles + 1
  /\ phase' = "top"
  /\ UNCHANGED <<processed_comments, media_posts, mi, comments, ci, pc, cur,
                 localVars, storeVars, images, callVars, trace, fetched,
                 parserVars>>

\* the process is stopped while it sleeps and started again: line 35 empties
\* the set, the Store and the files stay
Restart ==
  /\ phase = "sleep"
  /\ cycles < MaxCycles
  /\ cycles' = cycles + 1
  /\ processed_comments' = {}
  /\ phase' = "top"
  /\ media_posts' = <<>>
  /\ mi' = 1
  /\ comments' = <<>>
  /\ ci' = 1
  /\ pc' = "idle"
  /\ user' = None
  /\ profile_data' = None
  /\ deployment_result' = None
  /\ reply_result' = None
  /\ cur' = 0
  /\ trace' = <<>>
  /\ deploy_calls' = [id \in CommentIds |-> 0]
  /\ reply_calls' = [id \in CommentIds |-> 0]
  /\ error_reply_calls' = [id \in CommentIds |-> 0]
  /\ scrape_calls' = [id \in CommentIds |-> 0]
  /\ deploy_args' = [id \in CommentIds |-> NoArgs]
  /\ fetched' = NoFetch
  /\ UNCHANGED <<storeVars, images, parserVars>>

\* lines 655-657: KeyboardInterrupt, wherever main is, ends the loop; pc
\* keeps the place where process_comment was left
Interrupt ==
  /\ phase # "stopped"
  /\ phase' = "stopped"
  /\ UNCHANGED <<processed_comments, media_posts, mi, comments, ci, pc, cur,
                 localVars, storeVars, images, callVars, trace, boundVars,
                 fetched, parserVars>>

\* the steps of the program itself
Step ==
  \/ FetchMedia
  \/ FetchComments
  \/ NextComment
  \/ NextMedia
  \/ EndCycle
  \/ Sleep
  \/ CheckProcessed
  \/ GetUser
  \/ GetPicture
  \/ Scrape
  \/ GetUser2
  \/ Deploy
  \/ Reply
  \/ SaveDeployment
  \/ WriteRecordFile

Next ==
  \/ Step
  \/ Restart
  \/ Interrupt

Spec == Init /\ [][Next]_vars

\* the steps that the code itself brings to an end: the node scripts run
\* under subprocess.run with a timeout (database.py line 23, line 323), the
\* rest is local.  The calls made with requests (lines 47, 64, 119-166 and
\* instagram_reply.py lines 55, 117) pass no timeout and return when the
\* service answers or the connection fails
BoundedStep ==
  \/ CheckProcessed
  \/ GetUser
  \/ GetPicture
  \/ GetUser2
  \/ Deploy
  \/ SaveDeployment
  \/ WriteRecordFile
  \/ NextComment
  \/ NextMedia
  \/ EndCycle
  \/ Sleep

LiveSpec == Init /\ [][Next]_vars /\ WF_vars(BoundedStep)

\* deployment records the Store may hold when a further cycle starts
MaxRecords == 1

\* lines 653 and 663 with the cycles left uncounted: the while True loop of
\* line 613 goes on for as long as the process runs
SleepOn ==
  /\ phase = "sleep"
  /\ Len(deployments) <= MaxRecords
  /\ phase' = "top"
  /\ UNCHANGED <<processed_comments, media_posts, mi, comments, ci, pc, cur,
                 localVars, storeVars, images, callVars, trace, boundVars,
                 fetched, parserVars>>

\* a run of the process that is never interrupted
RunStep ==
  \/ FetchMedia
  \/ FetchComments
  \/ NextComment
  \/ NextMedia
  \/ EndCycle
  \/ SleepOn
  \/ CheckProcessed
  \/ GetUser
  \/ GetPicture
  \/ Scrape
  \/ GetUser2
  \/ Deploy
  \/ Reply
  \/ SaveDeployment
  \/ WriteRecordFile

\* every call returns and every step of the loop is taken in the end
RunSpec == Init /\ [][RunStep]_vars /\ WF_vars(RunStep)

(***************************************************************************)
(* The parser on its own: the test of line 406 and the call of line 413    *)
(* applied to a generated text.                                            *)
(***************************************************************************)
\* calls of parse_deploy_command on one text
MaxParses == 2

ParserInit ==
  /\ WorkflowInit
  /\ \/ parts \in Parts /\ input_text = Format(parts)
     \/ parts = NoParts /\ input_text \in OddTexts
  /\ mentioned = "unset"
  /\ parsed = None
  /\ parse_calls = 0
  /\ shown = None

\* line 406: f'@{OUR_USERNAME}' not in comment_text.lower()
Filter ==
  /\ mentioned = "unset"
  /\ mentioned' = IF Mentions(input_text) THEN "yes" ELSE "no"
  /\ UNCHANGED <<workflowVars, parts, input_text, parsed, parse_calls, shown>>

\* line 413: parsed = parse_deploy_command(comment_text, OUR_USERNAME)
Parse ==
  /\ parse_calls < MaxParses
  /\ parsed' = parse_deploy_command(input_text, OUR_USERNAME)
  /\ parse_calls' = parse_calls + 1
  /\ UNCHANGED <<workflowVars, parts, input_text, mentioned, shown>>

\* search_mentions.py lines 219-232 on the same text
Display ==
  /\ shown = None
  /\ shown' = display_command(input_text, OUR_USERNAME)
  /\ UNCHANGED <<workflowVars, parts, input_text, mentioned, parsed,
                 parse_calls>>

ParserNext == Filter \/ Parse \/ Display

ParserSpec == ParserInit /\ [][ParserNext]_vars

TypeOK ==
  /\ processed_comments \subseteq CommentIds
  /\ phase \in {"top", "media", "comments", "in_comment", "sleep", "stopped"}
  /\ pc \in {"idle", "check", "user", "pic", "scrape", "user2", "deploy",
             "reply", "save", "file"}
  /\ cycles \in 1..MaxCycles

(***************************************************************************)
(* scripts/fetch_comments_and_profiles.py: the comment monitor that scrapes *)
(* the profile of the author of a deploy comment and writes it to a file.  *)
(* It is a program of its own; its state is held in processed_comments,    *)
(* phase, media_posts, mi, comments, ci, pc, cur, scrape_calls, trace and   *)
(* cycles.                                                                 *)
(***************************************************************************)
\* line 169: '@feedo3app' in comment_text.lower() and 'deploy' in
\* comment_text.lower()
FcDeployCommand(txt) ==
  Occurs(AtHandle, lower(txt)) /\ Occurs(W_deploy, lower(txt))

\* what the Apify run comes to (lines 81-146)
FcScrapeRuns == {"start-error", "FAILED", "pending", "empty", "profile"}

\* scrape_profile_picture of the monitor: the profile, or None
FcScrapeProfile(username, run) ==
  IF run = "profile" THEN [t |-> "dict", username |-> username] ELSE None

\* lines 25-58: data.get('data', []), and [] from the except clauses
FcListing(response) == IF response.ok THEN response.data ELSE <<>>

\* the variables the monitor does not have
FcRest ==
  <<localVars, storeVars, images, deploy_calls, reply_calls,
    error_reply_calls, deploy_args, fetched, parserVars>>

\* line 203 and the return to the loop of line 229
FcAddAndReturn ==
  /\ processed_comments' = processed_comments \cup {cur}
  /\ pc' = "idle"
  /\ phase' = "comments"
  /\ ci' = ci + 1
  /\ UNCHANGED <<media_posts, mi, comments, cur, cycles>>

\* process_comment of the monitor goes on
FcGoto(next) ==
  /\ pc' = next
  /\ UNCHANGED <<processed_comments, mainVars, cur, cycles>>

\* line 218: media_posts = fetch_recent_media()
FcFetchMedia ==
  /\ phase = "top"
  /\ \E response \in FeedResponses(MediaIds) :
       media_posts' = FcListing(response)
  /\ mi' = 1
  /\ phase' = "media"
  /\ UNCHANGED <<processed_comments, comments, ci, pc, cur, scrape_calls,
                 trace, cycles, FcRest>>

\* line 227: comments = fetch_comments_for_media(media_id)
FcFetchComments ==
  /\ phase = "media"
  /\ mi <= Len(media_posts)
  /\ \E response \in FeedResponses(CommentsOf[media_posts[mi]]) :
       comments' = FcListing(response)
  /\ ci' = 1
  /\ phase' = "comments"
  /\ UNCHANGED <<processed_comments, media_posts, mi, pc, cur, scrape_calls,
                 trace, cycles, FcRest>>

\* lines 229-232 and 148-157: the next comment of the post
FcNextComment ==
  /\ phase = "comments"
  /\ ci <= Len(comments)
  /\ IF comments[ci] \in processed_comments
     THEN /\ ci' = ci + 1
          /\ UNCHANGED <<phase, pc, cur, trace>>
     ELSE /\ cur' = comments[ci]
          /\ pc' = "check"
          /\ phase' = "in_comment"
          /\ trace' = <<>>
          /\ UNCHANGED ci
  /\ UNCHANGED <<processed_comments, media_posts, mi, comments, scrape_calls,
                 cycles, FcRest>>

\* lines 168-170 and 202-203: the deploy command test
FcDetect ==
  /\ At("check")
  /\ IF FcDeployCommand(Comment[cur].text)
     THEN /\ trace' = Append(trace, Event("detect", "command", ""))
          /\ FcGoto("scrape")
     ELSE /\ trace' = Append(trace, Event("detect", "other", ""))
          /\ FcAddAndReturn
  /\ UNCHANGED <<scrape_calls, FcRest>>

\* lines 172-175 and 202-203: profile_data = scrape_profile_picture(username)
FcScrape ==
  /\ At("scrape")
  /\ scrape_calls' = Bump(scrape_calls, cur)
  /\ \E run \in FcScrapeRuns :
       IF IsNone(FcScrapeProfile(Comment[cur].username, run))
       THEN /\ trace' = Append(trace, Event("scrape", "None", run))
            /\ FcAddAndReturn
       ELSE /\ trace' = Append(trace, Event("scrape", "ok", run))
            /\ FcGoto("file")
  /\ UNCHANGED FcRest

\* lines 182-203: the profile_<username>_<time>.json file; os.makedirs, open
\* or json.dump raising leaves process_comment before line 203 and is caught
\* at line 246
FcSaveProfile ==
  /\ At("file")
  /\ \E ok \in BOOLEAN :
       IF ok
       THEN /\ trace' = Append(trace, Event("file", "written", ""))
            /\ FcAddAndReturn
       ELSE /\ trace' = Append(trace, Event("file", "OSError", ""))
            /\ pc' = "idle"
            /\ phase' = "sleep"
            /\ UNCHANGED <<processed_comments, media_posts, mi, comments, ci,
                           cur, cycles>>
  /\ UNCHANGED <<scrape_calls, FcRest>>

\* line 223: the next post
FcNextMedia ==
  /\ phase = "comments"
  /\ ci > Len(comments)
  /\ mi' = mi + 1
  /\ phase' = "media"
  /\ UNCHANGED <<processed_comments, media_posts, comments, ci, pc, cur,
                 scrape_calls, trace, cycles, FcRest>>

\* lines 234-241: all posts done
FcEndCycle ==
  /\ phase = "media"
  /\ mi > Len(media_posts)
  /\ phase' = "sleep"
  /\ UNCHANGED <<processed_comments, media_posts, mi, comments, ci, pc, cur,
                 scrape_calls, trace, cycles, FcRest>>

\* lines 241 and 249: time.sleep(POLLING_INTERVAL), then the next cycle
FcSleep ==
  /\ phase = "sleep"
  /\ cycles < MaxCycles
  /\ cycles' = cycles + 1
  /\ phase' = "top"
  /\ UNCHANGED <<processed_comments, media_posts, mi, comments, ci, pc, cur,
                 scrape_calls, trace, FcRest>>

\* lines 243-245: KeyboardInterrupt ends the loop
FcInterrupt ==
  /\ phase # "stopped"
  /\ phase' = "stopped"
  /\ UNCHANGED <<processed_comments, media_posts, mi, comments, ci, pc, cur,
                 scrape_calls, trace, cycles, FcRest>>

FcNext ==
  \/ FcFetchMedia
  \/ FcFetchComments
  \/ FcNextComment
  \/ FcDetect
  \/ FcScrape
  \/ FcSaveProfile
  \/ FcNextMedia
  \/ FcEndCycle
  \/ FcSleep
  \/ FcInterrupt

FetcherSpec == Init /\ [][FcNext]_vars

(***************************************************************************)
(* Properties.                                                             *)
(***************************************************************************)
HasEvent(op, res) ==
  \E i \in 1..Len(trace) : trace[i].op = op /\ trace[i].res = res

CountOp(op) == Cardinality({i \in 1..Len(trace) : trace[i].op = op})

\* the Store holds a record of the comment with the given status
Recorded(id, status) ==
  \E i \in 1..Len(deployments) :
    deployments[i].comment_id = id /\ deployments[i].status = status

\* the last process_comment is over (it returned or it raised)
Over == pc = "idle" /\ cur # 0 /\ trace # <<>>

\* C1: once the Store holds a deployment record for a comment id, a later
\* handling of that comment calls neither the Deployer nor the Notifier,
\* across cycles and restarts (stated for the handlings whose processed-check
\* the Store answers).
C1_RecordedNeverResubmitted ==
  ~ \E i, j \in 1..Len(trace) :
      /\ i < j
      /\ trace[i].op = "check" /\ trace[i].res = "recorded"
      /\ trace[j].op \in {"deploy", "reply", "reply_error"}

\* C2: within one process run the Deployer is called at most once per
\* comment id.
C2_AtMostOneDeployPerRun == \A id \in CommentIds : deploy_calls[id] <= 1

\* C3: when the processed-check of a comment finds the Store unavailable, the
\* Deployer is not called in that handling of the comment.
C3_StoreDownAbortsItem ==
  ~ \E i, j \in 1..Len(trace) :
      /\ i < j
      /\ trace[i].op = "check" /\ trace[i].res = "unavailable"
      /\ trace[j].op = "deploy"

\* C4: a handling of the valid command of comment 2 in which the profile is
\* resolved and the deployment succeeds makes exactly one Deployer call with
\* name Rocket and ticker RKT, exactly one success reply and exactly one
\* SUCCESS record for the comment (stated for the handlings that run to
\* their end and in which the Store refuses no save).
C4_ScenarioB ==
  (/\ Over /\ cur = 2
   /\ HasEvent("deploy", "success")
   /\ HasEvent("file", "written")
   /\ ~HasEvent("save", "failed"))
  => /\ CountOp("deploy") = 1
     /\ deploy_args[2].token_name = W_Rocket
     /\ deploy_args[2].ticker = <<"R", "K", "T">>
     /\ CountOp("reply") = 1
     /\ CountOp("reply_error") = 0
     /\ Cardinality({i \in 1..Len(trace) :
                       trace[i].op = "save" /\ trace[i].res = "saved"}) = 1
     /\ Recorded(2, "SUCCESS")

\* C5: for a comment whose text is rejected (no mention, no command form, or
\* an invalid ticker) process_comment calls neither the Asset Acquirer nor
\* the Deployer nor the Notifier, and never gets past the parse.
C5_RejectedNoExternalCalls ==
  \A id \in CommentIds :
    (~MentionedOf[id] \/ ~ParsedOf[id].valid) =>
      /\ scrape_calls[id] = 0
      /\ deploy_calls[id] = 0
      /\ reply_calls[id] = 0
      /\ error_reply_calls[id] = 0
      /\ cur = id => pc \in {"idle", "check"}

C5_Witness ==
  /\ Over /\ cur = 3
  /\ HasEvent("reject", "invalid-command")
  /\ {1, 3} \subseteq processed_comments

\* C6: the Deployer is called only with a profile that has a non-empty image
\* path and that was resolved earlier in the same handling (stored picture
\* or successful scrape); after a scrape that timed out, ended FAILED or
\* ABORTED, had no result or raised, the Deployer is not called.
C6_DeployNeedsProfile ==
  /\ pc \in {"deploy", "reply", "save", "file"} =>
       /\ ~IsNone(profile_data)
       /\ profile_data.profile_pic_path # NoPath
  /\ \A j \in 1..Len(trace) :
       trace[j].op = "deploy" =>
         /\ \E i \in 1..(j - 1) :
              \/ trace[i].op = "picture" /\ trace[i].res = "stored"
              \/ trace[i].op = "scrape" /\ trace[i].arg = "resolved"
         /\ \A i \in 1..(j - 1) :
              trace[i].op = "scrape" => trace[i].arg = "resolved"
  /\ \A id \in CommentIds :
       deploy_args[id].t = "args" => deploy_args[id].image_path # NoPath

C6_Witness ==
  /\ Over
  /\ HasEvent("scrape", "None")
  /\ \E i \in 1..Len(trace) : trace[i].op = "scrape" /\ trace[i].arg = "timeout"
  /\ deploy_calls[cur] = 0

\* C7: when the profile acquisition of a valid command fails, the handling
\* ends with a FAILED record of the comment in the Store and exactly one
\* failure notification, and without a Deployer call.
C7_AcquisitionFailureReported ==
  (Over /\ HasEvent("scrape", "None")) =>
    /\ Recorded(cur, "FAILED")
    /\ CountOp("reply_error") = 1
    /\ CountOp("deploy") = 0

\* C8: a handling that ends with the comment in processed_comments has made
\* exactly one Notifier call, except for a not-mentioned comment, which gets
\* none.
C8_OneReplyPerOutcome ==
  (Over /\ cur \in processed_comments) =>
    CountOp("reply") + CountOp("reply_error")
      = IF HasEvent("reject", "not-mentioned") THEN 0 ELSE 1

\* C9: every comment id in processed_comments has a record in the Store
\* (stated for the comments that mention the handle).
C9_SeenImpliesRecorded ==
  \A id \in processed_comments :
    MentionedOf[id] => StoreHasComment(deployments, id)

\* C10: when the Notifier call fails after the Deployer returned, the record
\* is saved with the status of the Deployer outcome, the id is added to
\* processed_comments and the Deployer is not called again in this run
\* (stated for the handlings in which the Store refuses no save).
C10_NotifierFailureKeepsOutcome ==
  (/\ Over
   /\ HasEvent("reply", "failed") \/ HasEvent("reply_error", "failed")
   /\ ~HasEvent("save", "failed"))
  => /\ Recorded(cur, IF HasEvent("deploy", "success") THEN "SUCCESS"
                      ELSE "FAILED")
     /\ cur \in processed_comments
     /\ deploy_calls[cur] <= 1

\* C11: within one process run, once a comment id is in processed_comments,
\* a later listing of the comment is passed over: no Asset Acquirer, Deployer
\* or Notifier call is made for it, no handling of it starts, and the Store
\* stays as it is.
C11_SeenNotHandledAgain ==
  [][\A id \in processed_comments \cap processed_comments' :
       /\ scrape_calls'[id] = scrape_calls[id]
       /\ deploy_calls'[id] = deploy_calls[id]
       /\ reply_calls'[id] = reply_calls[id]
       /\ error_reply_calls'[id] = error_reply_calls[id]
       /\ cur' = id => pc' = "idle"
       /\ (cur = id /\ cur' = id) => UNCHANGED <<storeVars, images>>
       /\ \A i \in 1..Len(deployments') :
            deployments'[i].comment_id = id => i <= Len(deployments)
       /\ (phase = "comments" /\ ci <= Len(comments) /\ comments[ci] = id)
            => /\ UNCHANGED <<storeVars, images, callVars, trace, cur, pc>>
               /\ phase' \in {"comments", "stopped"}]_vars

C11_Witness ==
  /\ cycles = 2
  /\ phase = "comments"
  /\ comments = <<2, 1>>
  /\ ci = 3
  /\ {1, 2} \subseteq processed_comments
  /\ cur = 4
  /\ deploy_calls[2] = 1

\* '@' followed by the handle occurs in the text, letters compared without
\* regard to case
HandleAnywhere(s) ==
  \E i \in 1..Len(s) :
    /\ i + Len(AtHandle) - 1 <= Len(s)
    /\ \A k \in 1..Len(AtHandle) : UpperChar(s[i + k - 1]) = UpperChar(AtHandle[k])

\* C12: a text that does not contain '@' followed by the handle, in any
\* casing, fails the mention test and parse_deploy_command gives no valid
\* command for it, whatever verb, name and ticker the text holds.
C12_NotMentionedNeverValid ==
  ~HandleAnywhere(input_text) =>
    /\ mentioned # "yes"
    /\ parse_calls > 0 => ~parsed.valid

C12_Witness ==
  /\ ~HandleAnywhere(input_text)
  /\ parts.handle = OUR_USERNAME
  /\ parts.verb = <<>>
  /\ parts.name = W_Rocket
  /\ parts.dollar
  /\ parts.ticker = <<"R", "K", "T">>
  /\ mentioned = "no"
  /\ parse_calls > 0

\* the uppercase form of each generated ticker, written out
UpperForm(t) ==
  CASE t = <<"r","k","7">> -> <<"R","K","7">>
    [] t = <<"A","b","C","D","E","F","G","H","I","J">> ->
         <<"A","B","C","D","E","F","G","H","I","J">>
    [] t = <<SmallEAcute,"T",SmallEAcute>> -> <<CapitalEAcute,"T",CapitalEAcute>>
    [] OTHER -> t

\* the text is '@handle deploy NAME $TICKER' with a bare-word name and a
\* ticker of 3 to 10 characters from A-Z, a-z and 0-9
RoundTripInput ==
  /\ parts.lead = <<>>
  /\ parts.handle = AtHandle
  /\ parts.verb = W_deploy
  /\ parts.name # <<>>
  /\ parts.dollar
  /\ parts.trail = <<>>
  /\ Len(parts.ticker) \in 3..10
  /\ \A i \in 1..Len(parts.ticker) :
       parts.ticker[i] \in LowerLetters \cup UpperLetters \cup Digits

\* C13: parsing '@handle deploy NAME $TICKER' gives a valid command with the
\* name NAME and the ticker TICKER in uppercase.
C13_RoundTrip ==
  (RoundTripInput /\ parse_calls > 0) =>
    /\ parsed.valid
    /\ parsed.name = parts.name
    /\ parsed.ticker = UpperForm(parts.ticker)

C13_Witness ==
  /\ RoundTripInput
  /\ parts.ticker = <<"r", "k", "7">>
  /\ parts.name = W_Rocket
  /\ parse_calls > 0

\* C14: the ticker of a valid command has 3 to 10 characters, all of them
\* from A-Z and 0-9; an invalid result carries neither a name nor a ticker.
C14_ValidTickerUpperAlnum ==
  parse_calls > 0 =>
    IF parsed.valid
    THEN /\ Len(parsed.ticker) \in 3..10
         /\ \A i \in 1..Len(parsed.ticker) :
              parsed.ticker[i] \in UpperLetters \cup Digits
    ELSE DOMAIN parsed = {"valid"}

\* the verb-bearing form occurs in the text (leads and trails hold no verb)
VerbFormHere ==
  /\ HandleAnywhere(parts.handle)
  /\ parts.verb # <<>>
  /\ parts.name # <<>>
  /\ parts.dollar

\* the tickers that line 98 lets through, written out
Accepted(t) ==
  t \in {<<"R","K","T">>, <<"r","k","7">>,
         <<"A","b","C","D","E","F","G","H","I","J">>,
         <<SmallEAcute,"T",SmallEAcute>>}

\* C15: when the verb-bearing form occurs in the text, its name and ticker
\* alone decide the result, a refused ticker giving an invalid result even
\* with a bare-form command with a good ticker elsewhere in the text; the
\* bare form decides only when the verb-bearing form occurs nowhere.
C15_VerbFormFirst ==
  parse_calls > 0 =>
    /\ VerbFormHere =>
         /\ parsed.valid = Accepted(parts.ticker)
         /\ parsed.valid =>
              /\ parsed.name = parts.name
              /\ parsed.ticker = UpperForm(parts.ticker)
    /\ (~VerbFormHere /\ parts.lead = BareCommand \o Sp) =>
         /\ parsed.valid
         /\ parsed.name = W_Moon
         /\ parsed.ticker = W_MOON

C15_Witness ==
  /\ VerbFormHere
  /\ parts.ticker = <<"A", "B">>
  /\ parts.trail = Sp \o BareCommand
  /\ parse_calls > 0
  /\ ~parsed.valid

C17_OneAtATimeInOrder ==
  [][/\ (pc = "idle" /\ pc' # "idle") =>
          /\ phase = "comments" /\ phase' = "in_comment"
          /\ ci <= Len(comments)
          /\ cur' = comments[ci]
          /\ \A k \in 1..(ci - 1) : comments[k] \in processed_comments
     /\ (pc # "idle" /\ pc' # "idle") =>
          /\ cur' = cur
          /\ UNCHANGED <<media_posts, mi, comments, ci>>
     /\ (pc # "idle") => phase \in {"in_comment", "stopped"}
     /\ (phase = "comments" /\ phase' = "media") =>
          /\ mi' = mi + 1
          /\ \A k \in 1..Len(comments) : comments[k] \in processed_comments
     /\ (phase = "media" /\ phase' = "comments") =>
          comments' \in {CommentsOf[media_posts[mi]], <<>>}
     /\ \A id \in CommentIds :
          deploy_calls'[id] > deploy_calls[id] =>
            /\ id = cur
            /\ \A other \in CommentIds \ {id} :
                 deploy_calls'[other] = deploy_calls[other]]_vars

C17_Witness ==
  /\ cycles = 1
  /\ pc = "check"
  /\ cur = 1
  /\ ci = 2
  /\ media_posts[mi] = "m1"
  /\ 2 \in processed_comments
  /\ deploy_calls[2] = 1

\* a step of the program is possible (the bound on the cycles aside)
NotStuck ==
  (phase # "stopped" /\ ~(phase = "sleep" /\ cycles >= MaxCycles))
    => ENABLED Step

\* C18: the loop goes from the end of a cycle, normal or by an exception,
\* to the sleep, from the sleep to the top of the loop, and from there to a
\* new listing of the feed; nothing but a keyboard interrupt, which changes
\* nothing else, stops it; as long as it is not stopped, control is at a
\* place of main or of process_comment and a step of the program is
\* possible.
C18_LoopOnlyStopsOnInterrupt ==
  /\ [](NotStuck)
  /\ [][/\ (phase' = "sleep" /\ phase # "sleep") => phase \in {"media", "in_comment"}
        /\ (phase = "sleep" /\ phase' # "sleep") => phase' \in {"top", "stopped"}
        /\ (phase' = "top" /\ phase # "top") =>
             phase = "sleep" /\ cycles' = cycles + 1
        /\ (phase = "top" /\ phase' # "top") =>
             \/ phase' = "media" /\ fetched'.call = "media"
             \/ phase' = "stopped"
        /\ (phase # "top" /\ phase' = "media") => phase = "comments"
        /\ (phase' = "stopped" /\ phase # "stopped") =>
             UNCHANGED <<processed_comments, media_posts, mi, comments, ci, pc,
                         cur, localVars, storeVars, images, callVars, trace,
                         boundVars, fetched>>
        /\ phase = "stopped" => phase' = "stopped"
        /\ phase' = "in_comment" =>
             pc' \in {"check", "user", "pic", "scrape", "user2", "deploy",
                      "reply", "save", "file"}
        /\ phase' \in {"top", "media", "comments", "sleep"} => pc' = "idle"]_vars

C18_Witness ==
  /\ cycles = 2
  /\ phase = "media"
  /\ fetched.call = "media"
  /\ HasEvent("file", "OSError")

\* C19: when the handling of a comment has raised, every other comment
\* listed with it is in processed_comments when the cycle ends.
C19_ErrorIsolation ==
  (phase = "sleep" /\ Over /\ HasEvent("file", "OSError")) =>
    \A k \in 1..Len(comments) :
      comments[k] = cur \/ comments[k] \in processed_comments

\* C20: the value a listing gives after a failed request differs from the
\* value it gives for a feed without posts or a post without comments.
C20_ErrorDistinctFromEmpty ==
  (fetched.call # "none" /\ ~fetched.ok) =>
    /\ fetched.value # fetch_recent_media([ok |-> TRUE, data |-> <<>>])
    /\ fetched.value # fetch_comments_for_media([ok |-> TRUE, data |-> <<>>])

\* C21: when the Deployer returns a failure, the error string handed to
\* reply_with_error and the error_message of the FAILED record saved for the
\* comment are both the error string the Deployer returned.
C21_ErrorStringPassedOn ==
  \A i \in 1..Len(trace) :
    (trace[i].op = "deploy" /\ trace[i].res = "failure") =>
      \A j \in 1..Len(trace) :
        /\ trace[j].op = "reply_error" =>
             trace[j].arg = deploy_token_on_pumpfun(trace[i].arg).error
        /\ (trace[j].op = "save" /\ trace[j].res = "saved") =>
             /\ deployments[Len(deployments)].comment_id = cur
             /\ deployments[Len(deployments)].status = "FAILED"
             /\ deployments[Len(deployments)].error_message =
                  deploy_token_on_pumpfun(trace[i].arg).error

\* a timed-out deployment was reported and recorded
C21_Witness ==
  /\ \E i \in 1..Len(trace) :
       trace[i] = Event("deploy", "failure", "timeout")
  /\ \E j \in 1..Len(trace) :
       trace[j].op = "reply_error" /\ trace[j].arg = "Deployment timeout"
  /\ HasEvent("save", "saved")
  /\ deployments[Len(deployments)].error_message = "Deployment timeout"

\* C22: check_comment_processed returns True whenever the database script
\* reports the comment as processed, and False only when it reports it as not
\* processed or the call failed.
C22_CheckReturnsStoreAnswer ==
  \A i \in 1..Len(trace) :
    trace[i].op = "check" => (trace[i].arg <=> trace[i].res = "recorded")

\* C23: once the Deployer has returned an outcome for a comment, a save of a
\* deployment record with the matching status (SUCCESS or FAILED) is
\* attempted, also when get_or_create_user returned nothing.
C23_SaveAttemptedForEveryOutcome ==
  \A i \in 1..Len(trace) :
    trace[i].op = "deploy" =>
      \/ pc \in {"reply", "save"}
      \/ \E j \in (i + 1)..Len(trace) :
           /\ trace[j].op = "save"
           /\ trace[j].res \in {"saved", "failed"}
           /\ trace[j].arg =
                (IF trace[i].res = "success" THEN "SUCCESS" ELSE "FAILED")

\* C24: when the Store returns a stored profile picture with a path for the
\* commenter, scrape_profile_picture is not called in that handling and the
\* Deployer receives the stored path as image_path.
C24_StoredPictureUsed ==
  \A i \in 1..Len(trace) :
    (trace[i].op = "picture" /\ trace[i].arg # NoPath) =>
      /\ ~ \E j \in 1..Len(trace) : trace[j].op = "scrape"
      /\ (\E j \in 1..Len(trace) : trace[j].op = "deploy") =>
           deploy_args[cur].image_path = trace[i].arg

\* a handling that found the stored picture and called the Deployer
C24_Witness ==
  /\ \E i \in 1..Len(trace) :
       trace[i].op = "picture" /\ trace[i].arg = TempPath(Comment[cur].username)
  /\ \E j \in 1..Len(trace) : trace[j].op = "deploy"
  /\ deploy_args[cur].image_path = pictures[Comment[cur].username]
  /\ scrape_calls[cur] = 0

\* C25: when no stored picture is found and scrape_profile_picture returns a
\* profile, the profile is stored in the Store under the commenter's name
\* before the Deployer is called, whether or not the user record existed
\* (stated for the handlings whose user lookup the Store answers).
C25_ScrapedProfilePersisted ==
  (/\ HasEvent("user", "ok")
   /\ HasEvent("scrape", "ok")
   /\ \E i \in 1..Len(trace) : trace[i].op = "deploy")
    => pictures[Comment[cur].username] = TempPath(Comment[cur].username)

\* C26: a stored profile stays reusable: the image file at a profile's stored
\* path is present, also after a deployment that used it, so that a later
\* handling that finds the stored picture gives the Deployer an existing file.
C26_CachedImageKept ==
  \A u \in Usernames : pictures[u] # NoPath => pictures[u] \in images

C28_DeployerAndNotifierReturn ==
  /\ At("deploy") ~> ~At("deploy")
  /\ At("reply") ~> ~At("reply")

\* C29: in the handling of a comment the Deployer is called only after the
\* Store processed-check, the mention filter, a valid parse and the
\* resolution of the profile, and the Notifier only after the Deployer has
\* returned.
C29_StagesInOrder ==
  /\ \A j \in 1..Len(trace) :
       trace[j].op = "deploy" =>
         /\ \E i \in 1..(j - 1) : trace[i].op = "check"
         /\ MentionedOf[cur]
         /\ ParsedOf[cur].valid
         /\ ~ \E i \in 1..Len(trace) : trace[i].op = "reject"
         /\ \E i \in 1..(j - 1) :
              \/ trace[i].op = "picture" /\ trace[i].res = "stored"
              \/ trace[i].op = "scrape" /\ trace[i].res = "ok"
  /\ \A k \in 1..Len(trace) :
       trace[k].op \in {"reply", "reply_error"} =>
         \E j \in 1..(k - 1) : trace[j].op = "deploy"

\* a handling that went through all stages
C29_Witness ==
  /\ Over
  /\ \E j, k \in 1..Len(trace) :
       /\ j < k
       /\ trace[j].op = "deploy"
       /\ trace[k].op \in {"reply", "reply_error"}
  /\ HasEvent("scrape", "ok")

\* C30: for both outcomes of the Deployer, the deployment record is saved
\* in the Store before the notification is sent to the commenter.
C30_RecordBeforeNotification ==
  \A k \in 1..Len(trace) :
    trace[k].op \in {"reply", "reply_error"} =>
      \E j \in 1..(k - 1) : trace[j].op = "save"

\* C31: when a cycle is aborted by an exception, processed_comments holds no
\* id added during that cycle that lacks a record in the Store (stated for
\* the first cycle of a run, where every id of the set was added in it).
C31_AbortedCycleLeavesNoIds ==
  (phase = "sleep" /\ cycles = 1 /\ HasEvent("file", "OSError")) =>
    \A id \in processed_comments : StoreHasComment(deployments, id)

\* C32: a comment that stays listed by the feed is handled in the end (its id
\* gets into processed_comments), even if the handling of a comment listed
\* before it raises in every cycle.  Stated for comment 1, listed behind
\* comment 2.
C32_ListedEventuallyHandled ==
  ([]<>(phase = "comments" /\ comments = CommentsOf["m1"]))
    => <>(1 \in processed_comments)

\* C33: a call of process_comment that returns without raising leaves the
\* comment's id in processed_comments, on each path: found in the Store, not
\* mentioned, invalid command, no profile, deployment failed, deployment
\* succeeded.
C33_ReturnAddsId ==
  (Over /\ ~HasEvent("file", "OSError")) => cur \in processed_comments

\* the return after a failed deployment, with the two rejected comments of
\* the post before already in the set
C33_Witness ==
  /\ Over
  /\ cur = 2
  /\ HasEvent("deploy", "failure")
  /\ HasEvent("save", "saved")
  /\ processed_comments = {2, 3, 4}

\* C34: during one process run processed_comments only grows: no step removes
\* an id from it, and no handling starts for an id that is in it.
C34_SetOnlyGrows ==
  [][\/ Restart
     \/ /\ processed_comments \subseteq processed_comments'
        /\ (pc = "idle" /\ pc' = "check") => cur' \notin processed_comments]_vars

\* the second cycle of a run has handled comments 3 and 4 and passed over
\* comments 2 and 1, handled in the first
C34_Witness ==
  /\ cycles = 2
  /\ phase = "comments"
  /\ comments = CommentsOf["m1"]
  /\ ci = 3
  /\ cur = 4
  /\ processed_comments = {1, 2, 3, 4}

\* C35: a text made of the handle, a verb and a ticker, without an asset name
\* ('@feedo3app deploy $RKT', '@feedo3app launch $RKT'), is rejected: the
\* verb is not returned as the name of a valid command.
C35_VerbWithoutNameRejected ==
  (/\ parse_calls > 0
   /\ parts.lead = <<>>
   /\ parts.trail = <<>>
   /\ parts.handle = AtHandle
   /\ parts.verb # <<>>
   /\ parts.name = <<>>
   /\ parts.dollar) => ~parsed.valid

\* C36: deploy_token_on_pumpfun returns success only for a run of the script
\* that ended with exit status 0; a run that exits with another status or
\* that times out is returned as a failure.
C36_SuccessOnlyOnExitZero ==
  \A i \in 1..Len(trace) :
    (trace[i].op = "deploy" /\ trace[i].res = "success") =>
      trace[i].arg = "json_exit0"

\* C37: in one run of the comment monitor scrape_profile_picture is called at
\* most once per comment id, and only for comments whose text holds both
\* '@feedo3app' and 'deploy' in any casing; the id of every comment handled
\* is in processed_comments once process_comment has returned, whether or
\* not the scrape gave a profile.
C37_MonitorScrapesOnce ==
  /\ \A id \in CommentIds :
       /\ scrape_calls[id] <= 1
       /\ scrape_calls[id] > 0 =>
            (HandleAnywhere(Comment[id].text)
             /\ \E i \in 1..Len(Comment[id].text) :
                  LitAt(W_deploy, Comment[id].text, i))
  /\ (Over /\ ~HasEvent("file", "OSError")) => cur \in processed_comments

\* C38: for every text that parse_deploy_command accepts as a valid command
\* the pattern of display_mentions extracts the same name and the same
\* upper-cased ticker.
C38_DisplaySameAsParser ==
  (parse_calls > 0 /\ parsed.valid /\ shown.t \in {"command", "no-match"}) =>
    /\ shown.t = "command"
    /\ shown.token_name = parsed.name
    /\ shown.ticker = parsed.ticker

=============================================================================
